---- MODULE Spec2Model ----
(***************************************************************************)
(* ELI5 text simplifier: the explanation service (eli5_agent.py) and the   *)
(* Streamlit presentation shell (app.py).                                  *)
(*                                                                         *)
(* A Python string is a sequence of tokens.  A token is one character of   *)
(* Chars, or one of the fixed literals of the source kept whole.  A Python *)
(* value is a record [type, val]: type is the Python type name, val the    *)
(* token sequence it holds (empty for values that hold no text).           *)
(***************************************************************************)
EXTENDS Naturals, Sequences, FiniteSets

VARIABLES credential, agent, last, explanation, input_text, ui

vars == <<credential, agent, last, explanation, input_text, ui>>

----------------------------------------------------------------------------
(* Bounds *)

MaxLen == 2
MaxReply == 2

----------------------------------------------------------------------------
(* Strings *)

Chars == {" ", "a"}

Whitespace == {" "}

RECURSIVE StringsUpTo(_)
StringsUpTo(n) ==
    IF n = 0 THEN {<<>>}
    ELSE LET shorter == StringsUpTo(n - 1)
         IN  shorter \cup {Append(s, c) : s \in shorter, c \in Chars}

Inputs == StringsUpTo(MaxLen)

\* A reply with whitespace on both sides and inside: "  a a  ".
PaddedReply == <<" ", " ", "a", " ", "a", " ", " ">>

Replies == StringsUpTo(MaxReply) \cup {PaddedReply}

RECURSIVE LStrip(_)
LStrip(s) ==
    IF s # <<>> /\ Head(s) \in Whitespace THEN LStrip(Tail(s)) ELSE s

RECURSIVE RStrip(_)
RStrip(s) ==
    IF s # <<>> /\ s[Len(s)] \in Whitespace
    THEN RStrip(SubSeq(s, 1, Len(s) - 1))
    ELSE s

StripLeftOnly(s) == LStrip(s)

\* str.strip(): leading and trailing whitespace removed.
Strip(s) == RStrip(LStrip(s))

PyStr(s) == [type |-> "str", val |-> s]

Absent == [type |-> "absent", val |-> <<>>]

\* Python truthiness of a value held in session state.
Truthy(v) == v.type \in {"str", "bytes"} /\ v.val # <<>>

----------------------------------------------------------------------------
(* eli5_agent.py: module load *)

Credentials == {"unset", "empty", "key"}

\* `not GOOGLE_API_KEY`: None and "" are both falsy.
KeyMissing(cred) == cred \in {"unset", "empty"}

LoadAlwaysSucceeds(cred) == "loaded"

\* Importing eli5_agent: raises ValueError when the key is missing,
\* otherwise builds llm, the prompt template and eli5_chain.
LoadAgent(cred) == IF KeyMissing(cred) THEN "failed" ELSE "loaded"

----------------------------------------------------------------------------
(* eli5_agent.py: the prompt and the remote reply *)

TemplateHead == "Explain the following text like I'm 5 years old. [...] Text to explain: "

TemplateTail == " Simplified Explanation for a 5-year-old: "

EmptyInputMsg == "Please provide some text to simplify!"

UnexpectedMsg == "Sorry, I couldn't simplify the text properly. The response structure was unexpected."

ErrorPrefix == "Sorry, an error occurred while trying to simplify the text: "

FormatPromptStripped(text) == <<TemplateHead>> \o Strip(text) \o <<TemplateTail>>

\* PromptTemplate.format(user_text = text): the text replaces {user_text}.
FormatPrompt(text) == <<TemplateHead>> \o text \o <<TemplateTail>>

\* str(e) of the failures eli5_chain.invoke can raise.
Failures == {"ConnectionError: network unreachable",
             "PermissionDenied: API key not valid"}

\* Values a reply can carry in place of a string.
NonStrValues == {[type |-> "bytes", val |-> <<" ", "a", " ">>],
                 [type |-> "NoneType", val |-> <<>>],
                 [type |-> "list", val |-> <<>>]}

ReplyValues == {PyStr(s) : s \in Replies} \cup NonStrValues

\* What eli5_chain.invoke does: raise, or return a dict with a 'text' key,
\* a dict without one, an object with a content attribute, or an object
\* with neither.
Outcomes ==
    {[kind |-> "raise", type |-> "Exception", val |-> <<f>>] : f \in Failures}
    \cup {[kind |-> "dict_text", type |-> v.type, val |-> v.val] : v \in ReplyValues}
    \cup {[kind |-> "message", type |-> v.type, val |-> v.val] : v \in ReplyValues}
    \cup {[kind |-> k, type |-> "NoneType", val |-> <<>>] : k \in {"dict_plain", "other"}}

NoOutcome == [kind |-> "none", type |-> "NoneType", val |-> <<>>]

Ok(v) == [exc |-> FALSE, type |-> v.type, val |-> v.val]

Raise(desc) == [exc |-> TRUE, type |-> "Exception", val |-> <<desc>>]

HasStrip(v) == v.type \in {"str", "bytes"}

NoStripError(v) ==
    IF v.type = "NoneType"
    THEN "AttributeError: 'NoneType' object has no attribute 'strip'"
    ELSE "AttributeError: 'list' object has no attribute 'strip'"

\* value.strip(): str and bytes return a stripped value of their own type,
\* any other value raises AttributeError.
CallStrip(v) ==
    IF HasStrip(v)
    THEN Ok([type |-> v.type, val |-> Strip(v.val)])
    ELSE Raise(NoStripError(v))

UnwrapContentUnstripped(response) ==
    IF response.kind = "dict_text"
    THEN CallStrip(response)
    ELSE IF response.kind = "message"
         THEN Ok(response)
         ELSE Ok(PyStr(<<UnexpectedMsg>>))

UnwrapElseRaises(response) ==
    IF response.kind = "dict_text"
    THEN CallStrip(response)
    ELSE IF response.kind = "message"
         THEN CallStrip(response)
         ELSE Raise("KeyError: 'text'")

\* The if / elif / else over the response.
Unwrap(response) ==
    IF response.kind = "dict_text"
    THEN CallStrip(response)
    ELSE IF response.kind = "message"
         THEN CallStrip(response)
         ELSE Ok(PyStr(<<UnexpectedMsg>>))

\* The body of the try block.
TryBody(outcome) ==
    IF outcome.kind = "raise" THEN Raise(outcome.val[1]) ELSE Unwrap(outcome)

\* `except Exception as e`: the exception becomes the returned string.
Except(r) == IF r.exc THEN Ok(PyStr(<<ErrorPrefix>> \o r.val)) ELSE r

ShortCircuitEmptyOnly(text) == text = <<>>

\* `not complex_text or not complex_text.strip()`
ShortCircuit(text) == text = <<>> \/ Strip(text) = <<>>

get_eli5_explanation(complex_text, outcome) ==
    IF ShortCircuit(complex_text)
    THEN [called |-> TRUE, text |-> complex_text, outcome |-> NoOutcome,
          raised |-> FALSE, type |-> "str", val |-> <<EmptyInputMsg>>,
          sent |-> <<>>]
    ELSE LET r == Except(TryBody(outcome))
         IN  [called |-> TRUE, text |-> complex_text, outcome |-> outcome,
              raised |-> r.exc, type |-> r.type, val |-> r.val,
              sent |-> <<FormatPrompt(complex_text)>>]

NotCalled ==
    [called |-> FALSE, text |-> <<>>, outcome |-> NoOutcome, raised |-> FALSE,
     type |-> "NoneType", val |-> <<>>, sent |-> <<>>]

Returned(call) == [type |-> call.type, val |-> call.val]

----------------------------------------------------------------------------
(* app.py: one script run per rerun of the Streamlit session *)

GuidanceMsg == "Please enter some text for me to simplify!"

NoRun ==
    [error |-> "none", input |-> FALSE, button |-> FALSE, output |-> FALSE,
     branch |-> "none", submitted |-> <<>>]

\* `from eli5_agent import ...` raised: the run ends with the uncaught
\* ValueError before any widget is created.
ImportFailed == [NoRun EXCEPT !.error = "ValueError"]

\* st.error(...) followed by st.stop().
KeyCheckStopped == [NoRun EXCEPT !.error = "st.error"]

\* The import statement: a module that loaded stays loaded, a failed load
\* is tried again by the next run.
ImportAgent == IF agent = "loaded" THEN "loaded" ELSE LoadAgent(credential)

\* `if 'explanation' not in st.session_state: ... = ""`, and the same for
\* input_text.
InitState(v) == IF v = Absent THEN PyStr(<<>>) ELSE v

BranchElifEmptyOnly(text) ==
    IF text # <<>> /\ Strip(text) # <<>> THEN "call"
    ELSE IF text = <<>> THEN "guidance"
    ELSE "fallback"

\* The if / elif / else of the button handler.
Branch(text) ==
    IF text # <<>> /\ Strip(text) # <<>> THEN "call"
    ELSE IF text = <<>> \/ Strip(text) = <<>> THEN "guidance"
    ELSE "fallback"

ButtonHandlerKeepsInput(text, outcome, expl, inp, call) ==
    LET b == Branch(text)
        c == get_eli5_explanation(text, outcome)
    IN  IF b = "call"
        THEN [branch |-> b, explanation |-> Returned(c),
              input_text |-> PyStr(text), call |-> c]
        ELSE IF b = "guidance"
             THEN [branch |-> b, explanation |-> PyStr(<<GuidanceMsg>>),
                   input_text |-> inp, call |-> call]
             ELSE [branch |-> b, explanation |-> PyStr(<<>>),
                   input_text |-> PyStr(<<>>), call |-> call]

\* The block under `if st.button(...)`: the session state and the last
\* service call it leaves, from the text in the text area.
ButtonHandler(text, outcome, expl, inp, call) ==
    LET b == Branch(text)
        c == get_eli5_explanation(text, outcome)
    IN  IF b = "call"
        THEN [branch |-> b, explanation |-> Returned(c),
              input_text |-> PyStr(text), call |-> c]
        ELSE IF b = "guidance"
             THEN [branch |-> b, explanation |-> PyStr(<<GuidanceMsg>>),
                   input_text |-> PyStr(<<>>), call |-> call]
             ELSE [branch |-> b, explanation |-> PyStr(<<>>),
                   input_text |-> PyStr(<<>>), call |-> call]

\* The widgets a run that reaches the footer has drawn.
Rendered(expl, branch, text) ==
    [error |-> "none", input |-> TRUE, button |-> TRUE, output |-> Truthy(expl),
     branch |-> branch, submitted |-> text]

----------------------------------------------------------------------------
(* Actions *)

Init ==
    /\ credential \in Credentials
    /\ agent = "unloaded"
    /\ last = NotCalled
    /\ explanation = Absent
    /\ input_text = Absent
    /\ ui = NoRun

\* eli5_agent is loaded on its own (python eli5_agent.py, or an import).
Import ==
    /\ agent = "unloaded"
    /\ agent' = LoadAgent(credential)
    /\ UNCHANGED <<credential, last, explanation, input_text, ui>>

\* A direct call of get_eli5_explanation, as in the __main__ block.
Explain(text, outcome) ==
    /\ agent = "loaded"
    /\ last' = get_eli5_explanation(text, outcome)
    /\ UNCHANGED <<credential, agent, explanation, input_text, ui>>

\* A run of app.py whose import of eli5_agent raises.
RunHalts ==
    /\ ImportAgent = "failed"
    /\ agent' = "failed"
    /\ ui' = ImportFailed
    /\ UNCHANGED <<credential, last, explanation, input_text>>

\* A run of app.py without a click on the button.
Rerun ==
    /\ ImportAgent = "loaded"
    /\ agent' = "loaded"
    /\ IF KeyMissing(credential)
       THEN /\ ui' = KeyCheckStopped
            /\ UNCHANGED <<explanation, input_text>>
       ELSE /\ explanation' = InitState(explanation)
            /\ input_text' = InitState(input_text)
            /\ ui' = Rendered(explanation', "none", <<>>)
    /\ UNCHANGED <<credential, last>>

\* A run of app.py started by a click on the button, with `text` in the
\* text area and `outcome` what the remote call does if it is made.
Click(text, outcome) ==
    /\ ImportAgent = "loaded"
    /\ agent' = "loaded"
    /\ IF KeyMissing(credential)
       THEN /\ ui' = KeyCheckStopped
            /\ UNCHANGED <<explanation, input_text, last>>
       ELSE \E h \in {ButtonHandler(text, outcome, InitState(explanation),
                                    InitState(input_text), last)} :
                /\ explanation' = h.explanation
                /\ input_text' = h.input_text
                /\ last' = h.call
                /\ ui' = Rendered(h.explanation, h.branch, text)
    /\ UNCHANGED credential

Next ==
    \/ Import
    \/ \E text \in Inputs, outcome \in Outcomes : Explain(text, outcome)

Spec == Init /\ [][Next]_vars

NextUI ==
    \/ RunHalts
    \/ Rerun
    \/ \E text \in Inputs, outcome \in Outcomes : Click(text, outcome)

SpecUI == Init /\ [][NextUI]_vars

----------------------------------------------------------------------------
(* Properties *)

\* Empty, or made of whitespace only.
AllWhitespace(s) == \A i \in 1..Len(s) : s[i] \in Whitespace

\* r is s without its leading and trailing whitespace: a slice of s that
\* neither starts nor ends with whitespace, with only whitespace cut off.
IsTrimOf(r, s) ==
    /\ r = <<>> \/ (r[1] \notin Whitespace /\ r[Len(r)] \notin Whitespace)
    /\ \E i \in 1..(Len(s) + 1) :
          /\ i + Len(r) - 1 <= Len(s)
          /\ r = SubSeq(s, i, i + Len(r) - 1)
          /\ \A k \in 1..Len(s) :
                (k < i \/ k > i + Len(r) - 1) => s[k] \in Whitespace

\* The prompt the template yields for a text, written out.
PromptFor(text) == <<TemplateHead>> \o text \o <<TemplateTail>>

\* C1: a call of get_eli5_explanation with empty or whitespace-only input
\* returns the fixed prompt-for-input message and invokes the chain zero
\* times, in every call of every sequence of calls.
C1_BlankInputNoCall ==
    (last.called /\ AllWhitespace(last.text)) =>
        /\ ~last.raised
        /\ Returned(last) = PyStr(<<EmptyInputMsg>>)
        /\ last.sent = <<>>

C1_Witness ==
    /\ last.called
    /\ last.text = <<" ", " ">>
    /\ last.sent = <<>>

\* C2 as stated: every call with non-empty input invokes the chain exactly
\* once, with the input substituted verbatim into the template.
C2_NonEmptyInputOneCall ==
    (last.called /\ last.text # <<>>) =>
        last.sent = <<PromptFor(last.text)>>

\* C2 as amended: every call whose input holds a non-whitespace character
\* invokes the chain exactly once, whether the call succeeds or fails, with
\* the input substituted verbatim (untrimmed) into the template.
C2_NonBlankInputOneCall ==
    (last.called /\ ~AllWhitespace(last.text)) =>
        last.sent = <<PromptFor(last.text)>>

C2_Witness ==
    /\ last.called
    /\ last.text = <<" ", "a">>
    /\ last.outcome.kind = "raise"
    /\ Len(last.sent) = 1

\* C3: get_eli5_explanation never raises and returns a string for every
\* input and every outcome of the remote call, and after a failure of the
\* call that string is the error prefix followed by the failure description.
C3_AlwaysReturnsString ==
    last.called =>
        /\ ~last.raised
        /\ last.type = "str"
        /\ (last.outcome.kind = "raise" =>
                last.val = <<ErrorPrefix>> \o last.outcome.val)

C5_TextFieldTrimmed ==
    (last.called /\ last.outcome.kind = "dict_text" /\ last.outcome.type = "str") =>
        /\ ~last.raised
        /\ last.type = "str"
        /\ IsTrimOf(last.val, last.outcome.val)

C5_Witness ==
    /\ last.called
    /\ last.outcome = [kind |-> "dict_text", type |-> "str", val |-> PaddedReply]
    /\ last.val = <<"a", " ", "a">>

\* C6: when the chain returns an object without a 'text' key whose content
\* attribute is a string, the call returns that string without its leading
\* and trailing whitespace.
C6_ContentTrimmed ==
    (last.called /\ last.outcome.kind = "message" /\ last.outcome.type = "str") =>
        /\ ~last.raised
        /\ last.type = "str"
        /\ IsTrimOf(last.val, last.outcome.val)

C6_Witness ==
    /\ last.called
    /\ last.outcome = [kind |-> "message", type |-> "str", val |-> PaddedReply]
    /\ last.val = <<"a", " ", "a">>

\* C7: when the chain returns neither a dict with 'text' nor an object with
\* content, the call returns the fixed unexpected-response message, which
\* does not start with the error prefix, and does not raise.
C7_UnrecognizedShape ==
    (last.called /\ last.outcome.kind \in {"dict_plain", "other"}) =>
        /\ ~last.raised
        /\ Returned(last) = PyStr(<<UnexpectedMsg>>)
        /\ last.val[1] # ErrorPrefix

C7_Witness ==
    /\ last.called
    /\ last.outcome.kind = "dict_plain"
    /\ last.val = <<UnexpectedMsg>>

\* C8: after every run started by a click, the stored explanation is a
\* non-empty string and the output region is drawn.
C8_AlwaysDisplayable ==
    ui.branch # "none" =>
        /\ explanation.type = "str"
        /\ explanation.val # <<>>
        /\ ui.output

C10_FallbackUnreachable ==
    /\ ui.branch # "fallback"
    /\ ui.branch # "none" =>
          ui.branch = (IF AllWhitespace(ui.submitted) THEN "guidance" ELSE "call")

C10_Witness ==
    /\ ui.branch = "guidance"
    /\ ui.submitted = <<" ", " ">>
    /\ last.called

====
